---- MODULE Spec2Model ----
(***************************************************************************)
(* PyTrack (src/main.py): the storage layer of the expense tracker and the  *)
(* handlers of its two front ends.                                         *)
(*                                                                         *)
(* The SQLite store is four tables (expenses, categories, goals, settings) *)
(* plus the AUTOINCREMENT counter of the expenses table.  Every function   *)
(* of SECTION 1 that writes is one action; every function that only reads  *)
(* is an operator over the tables.                                         *)
(*                                                                         *)
(* Text values whose characters the code looks at (dates, month keys,      *)
(* amounts given as text, category names) are sequences of ASCII codes, so *)
(* that parsing, stripping and SQLite's byte-wise comparison are computed  *)
(* and not assumed.  Amounts are whole currency units (integers): binary   *)
(* floating-point rounding is not modelled.                                *)
(*                                                                         *)
(* A handler of the GUI (SECTION 2) or of the CLI (SECTION 3) is one       *)
(* action per thread step: what runs on the event loop between two         *)
(* returns to it is one step, a worker thread is one step, and a callback  *)
(* a worker hands to the event loop is queued until the loop runs it.      *)
(***************************************************************************)
EXTENDS Integers, Sequences, FiniteSets, TLC

VARIABLES
    created,      \* TRUE once the four tables exist (CREATE TABLE IF NOT EXISTS)
    expenses,     \* table expenses: set of rows [id, date, amount, category, note]
    seq,          \* sqlite_sequence.seq of table expenses (AUTOINCREMENT)
    categories,   \* table categories: rows (names) in rowid order
    goals,        \* table goals: rows [month, goal] in rowid order
    settings,     \* table settings: rows [key, value] in rowid order
    call,         \* name of the function called last
    ret,          \* what that call returned or raised
    issued,       \* history: every expense id an INSERT has assigned
    goalLog,      \* history: month -> amount of the latest set_monthly_goal
    settingLog,   \* history: key -> value of the latest write of that key
    handler,      \* front-end handler that ran last
    message,      \* what that handler showed or printed last
    goal_label,   \* GUI: goal and spent amount shown above the progress bar
    budget_status, \* GUI: text of the budget status label
    ran,          \* storage and network calls of the last step, with their thread
    tree,         \* GUI: rows of the expense list on display
    threads,      \* GUI: worker threads started and not yet finished
    after_queue,  \* GUI: callbacks handed to the event loop and not yet run
    started,      \* history: number of worker threads started
    reports,      \* history: results the completion callbacks have shown
    chart_file,   \* reports/category_breakdown.png: absent, readable or unreadable
    outbox        \* messages the SMTP server has accepted

vars == <<created, expenses, seq, categories, goals, settings, call, ret,
          issued, goalLog, settingLog, handler, message, goal_label,
          budget_status, ran, tree, threads, after_queue, started, reports,
          chart_file, outbox>>

\* what the storage layer reads and writes
store == <<created, expenses, seq, categories, goals, settings, call, ret,
           issued, goalLog, settingLog>>

\* what only the front ends and their environment read and write
ui == <<handler, message, goal_label, budget_status, ran, tree, threads,
        after_queue, started, reports, chart_file, outbox>>

tables == <<created, expenses, seq, categories, goals, settings>>

-----------------------------------------------------------------------------
(* Characters and text *)

Dash == 45
Space == 32
Zero == 48

Digit(n) == Zero + n

IsDigit(c) == c \in Digit(0)..Digit(9)

\* str.isspace() for the ASCII range: space, \t, \n, \v, \f, \r
IsSpace(c) == c \in {Space, 9, 10, 11, 12, 13}

DigitVal(c) == c - Zero

\* two- and four-digit zero-padded decimal, and the unpadded form
D2(n) == <<Digit((n \div 10) % 10), Digit(n % 10)>>

D4(n) == <<Digit((n \div 1000) % 10), Digit((n \div 100) % 10)>> \o D2(n)

DN(n) == IF n < 10 THEN <<Digit(n)>> ELSE D2(n)

RECURSIVE ToInt(_)
\* int() of a run of decimal digits
ToInt(s) ==
    IF s = <<>> THEN 0
    ELSE 10 * ToInt(SubSeq(s, 1, Len(s) - 1)) + DigitVal(s[Len(s)])

AllDigits(s) == \A i \in 1..Len(s) : IsDigit(s[i])

RECURSIVE LStrip(_)
LStrip(s) ==
    IF s # <<>> /\ IsSpace(s[1]) THEN LStrip(Tail(s)) ELSE s

RECURSIVE RStrip(_)
RStrip(s) ==
    IF s # <<>> /\ IsSpace(s[Len(s)]) THEN RStrip(SubSeq(s, 1, Len(s) - 1)) ELSE s

\* str.strip()
Strip(s) == LStrip(RStrip(s))

RECURSIVE StrLess(_, _)
\* SQLite's BINARY collation (memcmp, the shorter text first on a common prefix)
StrLess(a, b) ==
    IF b = <<>> THEN FALSE
    ELSE IF a = <<>> THEN TRUE
    ELSE IF a[1] # b[1] THEN a[1] < b[1]
    ELSE StrLess(Tail(a), Tail(b))

StrLeq(a, b) == a = b \/ StrLess(a, b)

-----------------------------------------------------------------------------
(* Calendar *)

IsLeap(y) == (y % 4 = 0 /\ y % 100 # 0) \/ y % 400 = 0

DaysInMonth(y, m) ==
    IF m = 2 THEN (IF IsLeap(y) THEN 29 ELSE 28)
    ELSE IF m \in {4, 6, 9, 11} THEN 30 ELSE 31

\* the text a date-producing caller hands over: 'YYYY-MM-DD' when padded,
\* 'YYYY-M-D' when typed without leading zeros
FormatDate(y, m, d, padded) ==
    D4(y) \o <<Dash>> \o (IF padded THEN D2(m) ELSE DN(m))
          \o <<Dash>> \o (IF padded THEN D2(d) ELSE DN(d))

\* datetime.now().strftime('%Y-%m')
FormatMonth(y, m) == D4(y) \o <<Dash>> \o D2(m)

-----------------------------------------------------------------------------
(* datetime.strptime(date_str, '%Y-%m-%d'), src/main.py line 92 *)

\* %m of _strptime: 1[0-2]|0[1-9]|[1-9]
MonthToken(t) ==
    \/ Len(t) = 2 /\ t[1] = Digit(1) /\ t[2] \in Digit(0)..Digit(2)
    \/ Len(t) = 2 /\ t[1] = Digit(0) /\ t[2] \in Digit(1)..Digit(9)
    \/ Len(t) = 1 /\ t[1] \in Digit(1)..Digit(9)

\* %d of _strptime: 3[0-1]|[1-2]\d|0[1-9]|[1-9]| [1-9]
DayToken(t) ==
    \/ Len(t) = 2 /\ t[1] = Digit(3) /\ t[2] \in Digit(0)..Digit(1)
    \/ Len(t) = 2 /\ t[1] \in Digit(1)..Digit(2) /\ IsDigit(t[2])
    \/ Len(t) = 2 /\ t[1] = Digit(0) /\ t[2] \in Digit(1)..Digit(9)
    \/ Len(t) = 1 /\ t[1] \in Digit(1)..Digit(9)
    \/ Len(t) = 2 /\ t[1] = Space /\ t[2] \in Digit(1)..Digit(9)

\* the text is %Y-%m-%d from its first to its last character, the month token
\* lm characters long and the day token ld
MatchesFormat(s, lm, ld) ==
    /\ Len(s) = 4 + 1 + lm + 1 + ld
    /\ AllDigits(SubSeq(s, 1, 4))
    /\ s[5] = Dash
    /\ MonthToken(SubSeq(s, 6, 5 + lm))
    /\ s[6 + lm] = Dash
    /\ DayToken(SubSeq(s, 7 + lm, Len(s)))

\* [ok |-> FALSE] stands for ValueError; otherwise the date that was read
strptime(s) ==
    IF \E lm \in 1..2, ld \in 1..2 : MatchesFormat(s, lm, ld)
    THEN LET lm == CHOOSE l \in 1..2 : \E ld \in 1..2 : MatchesFormat(s, l, ld)
             y == ToInt(SubSeq(s, 1, 4))
             m == ToInt(SubSeq(s, 6, 5 + lm))
             d == ToInt(LStrip(SubSeq(s, 7 + lm, Len(s))))
         IN  IF y >= 1 /\ d <= DaysInMonth(y, m)
             THEN [ok |-> TRUE, y |-> y, m |-> m, d |-> d]
             ELSE [ok |-> FALSE, y |-> 0, m |-> 0, d |-> 0]
    ELSE [ok |-> FALSE, y |-> 0, m |-> 0, d |-> 0]

-----------------------------------------------------------------------------
(* SQLite's strftime('%Y-%m', date), src/main.py line 170 *)

\* SQLite reads a date only as YYYY-MM-DD with two-digit month 01..12 and day
\* 01..31, trailing blanks allowed; a day past the month's end runs into the
\* next month.  Anything else is NULL.
sqlite_strftime_ym(s) ==
    IF /\ Len(s) >= 10
       /\ AllDigits(SubSeq(s, 1, 4)) /\ s[5] = Dash
       /\ AllDigits(SubSeq(s, 6, 7)) /\ s[8] = Dash
       /\ AllDigits(SubSeq(s, 9, 10))
       /\ ToInt(SubSeq(s, 6, 7)) \in 1..12
       /\ ToInt(SubSeq(s, 9, 10)) \in 1..31
       /\ \A i \in 11..Len(s) : IsSpace(s[i])
    THEN LET y == ToInt(SubSeq(s, 1, 4))
             m == ToInt(SubSeq(s, 6, 7))
             d == ToInt(SubSeq(s, 9, 10))
             over == d > DaysInMonth(y, m)
             m2 == IF over THEN (IF m = 12 THEN 1 ELSE m + 1) ELSE m
             y2 == IF over /\ m = 12 THEN y + 1 ELSE y
         IN  [null |-> FALSE, text |-> FormatMonth(y2, m2)]
    ELSE [null |-> TRUE, text |-> <<>>]

-----------------------------------------------------------------------------
(* Python values passed as an amount, float(amount), and what SQLite stores *)

PyNum(n) == [t |-> "num", n |-> n, s |-> <<>>]

PyStr(s) == [t |-> "str", n |-> 0, s |-> s]

PyNaN == [t |-> "nan", n |-> 0, s |-> <<>>]

PyNone == [t |-> "none", n |-> 0, s |-> <<>>]

ToLower(c) == IF c \in 65..90 THEN c + 32 ELSE c

Lower(s) == [i \in 1..Len(s) |-> ToLower(s[i])]

\* the text 'nan'
NanText == <<110, 97, 110>>

\* float(amount), src/main.py line 93: err is "" when a float comes back
PyFloat(a) ==
    CASE a.t = "num"  -> [err |-> "", nan |-> FALSE, n |-> a.n]
      [] a.t = "nan"  -> [err |-> "", nan |-> TRUE, n |-> 0]
      [] a.t = "none" -> [err |-> "TypeError", nan |-> FALSE, n |-> 0]
      [] a.t = "str"  ->
            LET s == Strip(a.s)
                neg == s # <<>> /\ s[1] = Dash
                body == IF neg THEN Tail(s) ELSE s
            IN  IF body # <<>> /\ AllDigits(body)
                THEN [err |-> "", nan |-> FALSE,
                      n |-> IF neg THEN 0 - ToInt(body) ELSE ToInt(body)]
                ELSE IF Lower(body) = NanText
                THEN [err |-> "", nan |-> TRUE, n |-> 0]
                ELSE [err |-> "ValueError", nan |-> FALSE, n |-> 0]

\* the value column `amount REAL NOT NULL` holds for a bound Python value:
\* numbers are stored as reals, text that reads as a number is converted to a
\* real (REAL affinity), other text stays text, and sqlite3 binds a float NaN
\* as NULL
sqlite_store_real(a) ==
    CASE a.t = "num"  -> [null |-> FALSE, t |-> "real", n |-> a.n, s |-> <<>>]
      [] a.t = "str"  ->
            IF PyFloat(a).err = "" /\ ~PyFloat(a).nan
            THEN [null |-> FALSE, t |-> "real", n |-> PyFloat(a).n, s |-> <<>>]
            ELSE [null |-> FALSE, t |-> "text", n |-> 0, s |-> a.s]
      [] OTHER        -> [null |-> TRUE, t |-> "null", n |-> 0, s |-> <<>>]

RECURSIVE DigitPrefix(_)
DigitPrefix(s) ==
    IF s # <<>> /\ IsDigit(s[1]) THEN <<s[1]>> \o DigitPrefix(Tail(s)) ELSE <<>>

\* the number SUM() adds for a stored amount: a real as it is, text by its
\* leading digits (0 when it has none)
sqlite_numeric(v) ==
    IF v.t = "real" THEN v.n ELSE ToInt(DigitPrefix(v.s))

-----------------------------------------------------------------------------
(* Texts the model uses *)

\* 'Food', 'Travel', 'Shopping', 'Bills', 'Misc': default_categories
Food == <<70, 111, 111, 100>>

Travel == <<84, 114, 97, 118, 101, 108>>

Shopping == <<83, 104, 111, 112, 112, 105, 110, 103>>

Bills == <<66, 105, 108, 108, 115>>

Misc == <<77, 105, 115, 99>>

default_categories == <<Food, Travel, Shopping, Bills, Misc>>

\* 'Rent', 'Gym': names that are not default categories
Rent == <<82, 101, 110, 116>>

Gym == <<71, 121, 109>>

\* 'abc': text that is no number; 'lunch': a note
Abc == <<97, 98, 99>>

Lunch == <<108, 117, 110, 99, 104>>

-----------------------------------------------------------------------------
(* What a call hands back *)

Returned(b) == [exc |-> "", ok |-> b, msg |-> ""]

ReturnedMsg(b, m) == [exc |-> "", ok |-> b, msg |-> m]

ReturnedNone == [exc |-> "", ok |-> TRUE, msg |-> "None"]

Raised(e) == [exc |-> e, ok |-> FALSE, msg |-> ""]

-----------------------------------------------------------------------------
(* Bounds and inputs *)

\* no more than MaxId expense rows are ever inserted
MaxId == 2

\* no more than MaxActions worker threads are ever started
MaxActions == 2

Init ==
    /\ created = FALSE
    /\ expenses = {}
    /\ seq = 0
    /\ categories = <<>>
    /\ goals = <<>>
    /\ settings = <<>>
    /\ call = "connect_db"
    /\ ret = ReturnedNone
    /\ issued = {}
    /\ goalLog = {}
    /\ settingLog = {}
    /\ handler = "main"
    /\ message = ""
    /\ goal_label = [goal |-> 0, spent |-> 0]
    /\ budget_status = "Set a goal to see your status."
    /\ ran = {}
    /\ tree = <<>>
    /\ threads = {}
    /\ after_queue = <<>>
    /\ started = 0
    /\ reports = <<>>
    /\ chart_file = "absent"
    /\ outbox = {}

-----------------------------------------------------------------------------
(* Table helpers *)

SeqToSet(q) == {q[i] : i \in 1..Len(q)}

\* DELETE of the rows that satisfy Match, the others keeping their order
RECURSIVE DeleteRows(_, _)
DeleteRows(q, gone) ==
    IF q = <<>> THEN <<>>
    ELSE IF Head(q) \in gone THEN DeleteRows(Tail(q), gone)
    ELSE <<Head(q)>> \o DeleteRows(Tail(q), gone)

MaxOf(S) == IF S = {} THEN 0 ELSE CHOOSE x \in S : \A y \in S : y <= x

\* a rowid table without AUTOINCREMENT: one more than the largest rowid the
\* table holds now
next_rowid_reuse == MaxOf({r.id : r \in expenses}) + 1

\* the rowid an AUTOINCREMENT table gives a new row: one more than the
\* largest rowid the table has ever held
next_rowid == MaxOf({seq} \cup {r.id : r \in expenses}) + 1

-----------------------------------------------------------------------------
(* initialize_db, src/main.py lines 32-70 *)

\* INSERT OR REPLACE of the default currency and unconditional seeding
initialize_db_reseed ==
    /\ created' = TRUE
    /\ settings' = Append(DeleteRows(settings,
                            {r \in SeqToSet(settings) : r.key = "currency_symbol"}),
                          [key |-> "currency_symbol", value |-> "$"])
    /\ settingLog' = {e \in settingLog : e.key # "currency_symbol"}
                        \cup {[key |-> "currency_symbol", value |-> "$"]}
    /\ categories' = IF Len(categories) = 0 THEN default_categories ELSE categories
    /\ call' = "initialize_db"
    /\ ret' = ReturnedNone
    /\ UNCHANGED <<expenses, seq, goals, issued, goalLog>>

initialize_db ==
    LET has_currency == \E i \in 1..Len(settings) : settings[i].key = "currency_symbol"
    IN  /\ created' = TRUE
        /\ settings' = IF has_currency THEN settings
                       ELSE Append(settings, [key |-> "currency_symbol", value |-> "$"])
        /\ settingLog' = IF has_currency THEN settingLog
                         ELSE {e \in settingLog : e.key # "currency_symbol"}
                                \cup {[key |-> "currency_symbol", value |-> "$"]}
        /\ categories' = IF Len(categories) = 0 THEN default_categories ELSE categories
        /\ call' = "initialize_db"
        /\ ret' = ReturnedNone
        /\ UNCHANGED <<expenses, seq, goals, issued, goalLog>>

-----------------------------------------------------------------------------
(* Settings, src/main.py lines 72-87 *)

\* [none |-> TRUE] is Python's None
get_setting(key) ==
    IF \E i \in 1..Len(settings) : settings[i].key = key
    THEN [none |-> FALSE,
          value |-> settings[CHOOSE i \in 1..Len(settings) :
                               /\ settings[i].key = key
                               /\ \A j \in 1..(i - 1) : settings[j].key # key].value]
    ELSE [none |-> TRUE, value |-> ""]

\* INSERT OR IGNORE: a key the table holds keeps its old value
sqlite_replace_setting_ignore(key, value) ==
    IF \E i \in 1..Len(settings) : settings[i].key = key
    THEN settings
    ELSE Append(settings, [key |-> key, value |-> value])

\* REPLACE INTO: the row that holds the key is deleted, the new row inserted
sqlite_replace_setting(key, value) ==
    Append(DeleteRows(settings, {r \in SeqToSet(settings) : r.key = key}),
           [key |-> key, value |-> value])

update_setting(key, value) ==
    /\ call' = "update_setting"
    /\ IF ~created
       THEN /\ ret' = Raised("OperationalError")
            /\ UNCHANGED <<settings, settingLog>>
       ELSE /\ settings' = sqlite_replace_setting(key, value)
            /\ settingLog' = {e \in settingLog : e.key # key}
                                \cup {[key |-> key, value |-> value]}
            /\ ret' = ReturnedNone
    /\ UNCHANGED <<created, expenses, seq, categories, goals, issued, goalLog>>

-----------------------------------------------------------------------------
(* Expenses, src/main.py lines 89-123 *)

\* lines 91-97: "" when the input passes, "False" when the ValueError handler
\* returns False, "TypeError" when float() raises past the handler
validate_expense(date_str, amount) ==
    IF ~strptime(date_str).ok THEN "False"
    ELSE IF PyFloat(amount).err = "ValueError" THEN "False"
    ELSE IF PyFloat(amount).err = "TypeError" THEN "TypeError"
    ELSE IF ~PyFloat(amount).nan /\ PyFloat(amount).n <= 0 THEN "False"
    ELSE ""

\* the row of lines 100-101; date, category and note are TEXT and kept as given
expense_row(id, date_str, amount, category, note) ==
    [id |-> id, date |-> date_str, amount |-> sqlite_store_real(amount),
     category |-> category, note |-> note]

add_expense(date_str, amount, category, note) ==
    /\ call' = "add_expense"
    /\ UNCHANGED <<created, categories, goals, settings, goalLog, settingLog>>
    /\ IF validate_expense(date_str, amount) = "False"
       THEN /\ ret' = Returned(FALSE)
            /\ UNCHANGED <<expenses, seq, issued>>
       ELSE IF validate_expense(date_str, amount) = "TypeError"
       THEN /\ ret' = Raised("TypeError")
            /\ UNCHANGED <<expenses, seq, issued>>
       ELSE IF ~created
       THEN /\ ret' = Raised("OperationalError")
            /\ UNCHANGED <<expenses, seq, issued>>
       ELSE IF sqlite_store_real(amount).null
       THEN /\ ret' = Raised("IntegrityError")
            /\ UNCHANGED <<expenses, seq, issued>>
       ELSE /\ seq < MaxId
            /\ expenses' = expenses \cup
                  {expense_row(next_rowid, date_str, amount, category, note)}
            /\ seq' = next_rowid
            /\ issued' = issued \cup {next_rowid}
            /\ ret' = Returned(TRUE)

\* success taken from rowcount >= 0
delete_expense_any_rowcount(expense_id) ==
    /\ call' = "delete_expense"
    /\ UNCHANGED <<created, seq, categories, goals, settings, issued, goalLog, settingLog>>
    /\ IF ~created
       THEN /\ ret' = Raised("OperationalError")
            /\ UNCHANGED expenses
       ELSE LET gone == {r \in expenses : r.id = expense_id}
            IN  /\ expenses' = expenses \ gone
                /\ ret' = Returned(Cardinality(gone) >= 0)

delete_expense(expense_id) ==
    /\ call' = "delete_expense"
    /\ UNCHANGED <<created, seq, categories, goals, settings, issued, goalLog, settingLog>>
    /\ IF ~created
       THEN /\ ret' = Raised("OperationalError")
            /\ UNCHANGED expenses
       ELSE LET gone == {r \in expenses : r.id = expense_id}
            IN  /\ expenses' = expenses \ gone
                /\ ret' = Returned(Cardinality(gone) > 0)

RECURSIVE OrderByDateDesc(_)
\* ORDER BY date DESC; rows of one date in rowid order
OrderByDateDesc(rows) ==
    IF rows = {} THEN <<>>
    ELSE LET first == CHOOSE r \in rows : \A o \in rows :
                          \/ StrLess(o.date, r.date)
                          \/ (o.date = r.date /\ r.id <= o.id)
         IN  <<first>> \o OrderByDateDesc(rows \ {first})

RECURSIVE OrderByDate(_)
\* ORDER BY date; rows of one date in rowid order
OrderByDate(rows) ==
    IF rows = {} THEN <<>>
    ELSE LET first == CHOOSE r \in rows : \A o \in rows :
                          \/ StrLess(r.date, o.date)
                          \/ (o.date = r.date /\ r.id <= o.id)
         IN  <<first>> \o OrderByDate(rows \ {first})

get_all_expenses == OrderByDateDesc(expenses)

RECURSIVE SumAmounts(_)
\* SUM(amount) over rows
SumAmounts(rows) ==
    IF rows = {} THEN 0
    ELSE LET r == CHOOSE x \in rows : TRUE
         IN  sqlite_numeric(r.amount) + SumAmounts(rows \ {r})

\* SELECT SUM(amount) FROM rows WHERE strftime('%Y-%m', date) = month_str;
\* SUM over no row is NULL, returned as 0.0
sum_for_month(rows, month_str) ==
    SumAmounts({r \in rows :
                  /\ ~sqlite_strftime_ym(r.date).null
                  /\ sqlite_strftime_ym(r.date).text = month_str})

get_total_expenses_for_month(month_str) == sum_for_month(expenses, month_str)

\* lines 222-230: date BETWEEN ? AND ? compares the texts; the id is not selected
get_expenses_in_date_range(start_date, end_date) ==
    LET hit == OrderByDate({r \in expenses :
                   StrLeq(start_date, r.date) /\ StrLeq(r.date, end_date)})
    IN  [i \in 1..Len(hit) |->
           [date |-> hit[i].date, amount |-> hit[i].amount,
            category |-> hit[i].category, note |-> hit[i].note]]

-----------------------------------------------------------------------------
(* Categories, src/main.py lines 125-147 *)

RECURSIVE OrderByName(_)
OrderByName(names) ==
    IF names = <<>> THEN <<>>
    ELSE LET i == CHOOSE k \in 1..Len(names) : \A j \in 1..Len(names) :
                      \/ StrLess(names[k], names[j])
                      \/ (names[k] = names[j] /\ k <= j)
         IN  <<names[i]>> \o
             OrderByName(SubSeq(names, 1, i - 1) \o SubSeq(names, i + 1, Len(names)))

get_categories == OrderByName(categories)

\* a categories table whose name column is no key
sqlite_insert_category_nokey(name) ==
    [exc |-> "", rows |-> Append(categories, name)]

\* INSERT INTO categories: name is the PRIMARY KEY, so a name the table holds
\* raises sqlite3.IntegrityError
sqlite_insert_category(name) ==
    IF name \in SeqToSet(categories)
    THEN [exc |-> "IntegrityError", rows |-> categories]
    ELSE [exc |-> "", rows |-> Append(categories, name)]

add_category(category_name) ==
    /\ call' = "add_category"
    /\ UNCHANGED <<created, expenses, seq, goals, settings, issued, goalLog, settingLog>>
    /\ IF Strip(category_name) = <<>>
       THEN /\ ret' = ReturnedMsg(FALSE, "Category name cannot be empty.")
            /\ UNCHANGED categories
       ELSE IF ~created
       THEN /\ ret' = Raised("OperationalError")
            /\ UNCHANGED categories
       ELSE IF sqlite_insert_category(category_name).exc = "IntegrityError"
       THEN /\ ret' = ReturnedMsg(FALSE, "already exists")
            /\ UNCHANGED categories
       ELSE /\ categories' = sqlite_insert_category(category_name).rows
            /\ ret' = ReturnedMsg(TRUE, "added successfully")

-----------------------------------------------------------------------------
(* Goals, src/main.py lines 149-164 *)

\* plain INSERT into a goals table whose month column is no key
sqlite_replace_goal_insert(month_str, goal_amount) ==
    Append(goals, [month |-> month_str, goal |-> goal_amount])

\* REPLACE INTO goals: the row of that month is deleted, the new row inserted
sqlite_replace_goal(month_str, goal_amount) ==
    Append(DeleteRows(goals, {r \in SeqToSet(goals) : r.month = month_str}),
           [month |-> month_str, goal |-> goal_amount])

set_monthly_goal(month_str, goal_amount) ==
    /\ call' = "set_monthly_goal"
    /\ UNCHANGED <<created, expenses, seq, categories, settings, issued, settingLog>>
    /\ IF ~created
       THEN /\ ret' = Raised("OperationalError")
            /\ UNCHANGED <<goals, goalLog>>
       ELSE /\ goals' = sqlite_replace_goal(month_str, goal_amount)
            /\ goalLog' = {e \in goalLog : e.month # month_str}
                             \cup {[month |-> month_str, goal |-> goal_amount]}
            /\ ret' = ReturnedNone

\* SELECT goal FROM rows WHERE month = ?: fetchone() of the first matching
\* row, 0.0 when there is none
select_goal(rows, month_str) ==
    IF \E i \in 1..Len(rows) : rows[i].month = month_str
    THEN rows[CHOOSE i \in 1..Len(rows) :
                 /\ rows[i].month = month_str
                 /\ \A j \in 1..(i - 1) : rows[j].month # month_str].goal
    ELSE 0

get_monthly_goal(month_str) == select_goal(goals, month_str)

-----------------------------------------------------------------------------
(* Inputs *)

\* '2024-01-05', '2024-1-5', '2024-02-05', '2024-02-30' and the empty text
DateInputs ==
    {FormatDate(2024, 1, 5, TRUE), FormatDate(2024, 1, 5, FALSE),
     FormatDate(2024, 2, 5, TRUE), FormatDate(2024, 2, 30, TRUE), <<>>}

\* 5, 0, -5, '5', 'abc', 'nan', float('nan'), None
AmountInputs ==
    {PyNum(5), PyNum(0), PyNum(-5), PyStr(<<Digit(5)>>), PyStr(Abc),
     PyStr(NanText), PyNaN, PyNone}

CategoryInputs == {Food, Gym}

NoteInputs == {Lunch}

IdInputs == 1..(MaxId + 1)

\* 'Food', 'Rent', ' ' and the empty text
NameInputs == {Food, Rent, <<Space>>, <<>>}

MonthInputs == {FormatMonth(2024, 1), FormatMonth(2024, 2)}

GoalInputs == {50, 100}

KeyInputs == {"currency_symbol", "theme"}

ValueInputs == {"$", "EUR"}

-----------------------------------------------------------------------------
(* Specifications *)

\* the expense repository on an initialized or fresh store
NextExpenses ==
    \/ initialize_db /\ UNCHANGED ui
    \/ \E d \in DateInputs, a \in AmountInputs, c \in CategoryInputs, n \in NoteInputs :
          add_expense(d, a, c, n) /\ UNCHANGED ui
    \/ \E id \in IdInputs : delete_expense(id) /\ UNCHANGED ui

SpecExpenses == Init /\ [][NextExpenses]_vars

\* categories, goals and settings
NextCatalog ==
    \/ initialize_db /\ UNCHANGED ui
    \/ \E name \in NameInputs : add_category(name) /\ UNCHANGED ui
    \/ \E m \in MonthInputs, g \in GoalInputs : set_monthly_goal(m, g) /\ UNCHANGED ui
    \/ \E k \in KeyInputs, v \in ValueInputs : update_setting(k, v) /\ UNCHANGED ui

SpecCatalog == Init /\ [][NextCatalog]_vars

\* every writing function together, each on a few inputs
Next ==
    \/ initialize_db /\ UNCHANGED ui
    \/ \E d \in {FormatDate(2024, 1, 5, TRUE), <<>>}, a \in {PyNum(5), PyNum(0)} :
          add_expense(d, a, Food, Lunch) /\ UNCHANGED ui
    \/ \E id \in IdInputs : delete_expense(id) /\ UNCHANGED ui
    \/ \E name \in {Rent, <<>>} : add_category(name) /\ UNCHANGED ui
    \/ \E g \in GoalInputs : set_monthly_goal(FormatMonth(2024, 1), g) /\ UNCHANGED ui
    \/ \E v \in ValueInputs : update_setting("currency_symbol", v) /\ UNCHANGED ui

Spec == Init /\ [][Next]_vars

-----------------------------------------------------------------------------
(* Vocabulary of the claims *)

\* the text is a real calendar date written YYYY-MM-DD, zero-padded
IsPaddedCalendarDate(s) ==
    /\ Len(s) = 10
    /\ \A i \in {1, 2, 3, 4, 6, 7, 9, 10} : IsDigit(s[i])
    /\ s[5] = Dash /\ s[8] = Dash
    /\ ToInt(SubSeq(s, 1, 4)) >= 1
    /\ ToInt(SubSeq(s, 6, 7)) \in 1..12
    /\ ToInt(SubSeq(s, 9, 10)) \in 1..DaysInMonth(ToInt(SubSeq(s, 1, 4)), ToInt(SubSeq(s, 6, 7)))

\* the Python value is a number greater than zero
IsPositiveNumber(a) ==
    /\ PyFloat(a).err = ""
    /\ ~PyFloat(a).nan
    /\ PyFloat(a).n > 0

\* the call returned (did not raise) a failure
FailureResult(r) == r.exc = "" /\ r.ok = FALSE

\* position of a calendar date on the time line
DayNumber(p) == p.y * 10000 + p.m * 100 + p.d

-----------------------------------------------------------------------------
(* C1 *)

\* C1: for every initialized store and every valid input (a real calendar
\* date, amount > 0, any category and note) add_expense succeeds, exactly one
\* record is new and carries those four values, every earlier record is still
\* there, and the total of the date's month grows by exactly the amount.
C1_AddThenListAndTotal ==
    [][\A d \in DateInputs, a \in AmountInputs, c \in CategoryInputs, n \in NoteInputs :
         (/\ created
          /\ strptime(d).ok
          /\ IsPositiveNumber(a)
          /\ add_expense(d, a, c, n))
         => LET month == FormatMonth(strptime(d).y, strptime(d).m)
                before == get_all_expenses
                after == OrderByDateDesc(expenses')
                new == SeqToSet(after) \ SeqToSet(before)
            IN  /\ ret' = Returned(TRUE)
                /\ SeqToSet(before) \subseteq SeqToSet(after)
                /\ Len(after) = Len(before) + 1
                /\ Cardinality(new) = 1
                /\ \A r \in new :
                      /\ r.date = d
                      /\ sqlite_numeric(r.amount) = PyFloat(a).n
                      /\ r.category = c
                      /\ r.note = n
                /\ sum_for_month(expenses', month)
                      = get_total_expenses_for_month(month) + PyFloat(a).n
      ]_vars

-----------------------------------------------------------------------------
(* C2 *)

\* C2: in every reachable state every stored expense has an amount > 0 and a
\* date that is a real calendar date in zero-padded YYYY-MM-DD form.
C2_StoredExpensesWellFormed ==
    \A r \in expenses :
        /\ r.amount.t = "real"
        /\ r.amount.n > 0
        /\ IsPaddedCalendarDate(r.date)

-----------------------------------------------------------------------------
(* C3 *)

\* C3: on an initialized store add_expense with a date that is not a real
\* YYYY-MM-DD calendar date or with an amount that is not a positive number,
\* and add_category with a blank name, do not succeed (they hand back a failure
\* or raise) and leave all four tables as they were.
C3_ValidationBeforeWrite ==
    [][/\ \A d \in DateInputs, a \in AmountInputs, c \in CategoryInputs, n \in NoteInputs :
            (/\ created
             /\ ~IsPaddedCalendarDate(d) \/ ~IsPositiveNumber(a)
             /\ add_expense(d, a, c, n))
            => ~ret'.ok /\ UNCHANGED tables
       /\ \A name \in NameInputs :
            (created /\ Strip(name) = <<>> /\ add_category(name))
            => FailureResult(ret') /\ UNCHANGED tables
      ]_vars

-----------------------------------------------------------------------------
(* C4 *)

\* C4: on an initialized store delete_expense(id) returns true exactly when a
\* row with that id is stored; afterwards the rows are the earlier rows without
\* that id, nothing else changes, and deleting an id that is not stored
\* returns false and changes no table.
C4_DeleteExactlyThatId ==
    [][\A id \in IdInputs :
         (created /\ delete_expense(id))
         => /\ ret' = Returned(\E r \in expenses : r.id = id)
            /\ expenses' = {r \in expenses : r.id # id}
            /\ UNCHANGED <<created, seq, categories, goals, settings>>
            /\ (~\E r \in expenses : r.id = id) => UNCHANGED tables
      ]_vars

\* a delete removed one of two stored expenses
C4_Witness ==
    /\ call = "delete_expense"
    /\ ret = Returned(TRUE)
    /\ Cardinality(expenses) = 1
    /\ Cardinality(issued) = 2

-----------------------------------------------------------------------------
(* C5 *)

\* C5: every successful add_expense assigns an id greater than every id
\* assigned before, and the stored ids are pairwise different.
C5_IdsMonotonicNeverReused ==
    [][(call' = "add_expense" /\ ret' = Returned(TRUE))
         => /\ Cardinality(expenses' \ expenses) = 1
            /\ \A r \in expenses' \ expenses :
                  /\ \A old \in issued : old < r.id
                  /\ issued' = issued \cup {r.id}
            /\ \A r1, r2 \in expenses' : r1.id = r2.id => r1 = r2
      ]_vars

\* an add succeeded after the expense with the largest id had been deleted
C5_Witness ==
    /\ call = "add_expense"
    /\ ret = Returned(TRUE)
    /\ issued = {1, 2}
    /\ {r.id : r \in expenses} = {2}

-----------------------------------------------------------------------------
(* C6 *)

NoDuplicates(q) == \A i, j \in 1..Len(q) : q[i] = q[j] => i = j

\* C6: on an initialized store add_category of a non-blank name succeeds when
\* the name is not stored and returns the 'already exists' outcome, the
\* categories unchanged, when it is; get_categories never lists a name twice.
C6_CategoryNamesUnique ==
    [][\A name \in NameInputs :
         (created /\ Strip(name) # <<>> /\ add_category(name))
         => /\ IF name \in SeqToSet(categories)
               THEN /\ ret' = ReturnedMsg(FALSE, "already exists")
                    /\ categories' = categories
               ELSE /\ ret' = ReturnedMsg(TRUE, "added successfully")
                    /\ SeqToSet(categories') = SeqToSet(categories) \cup {name}
            /\ NoDuplicates(OrderByName(categories'))
            /\ Len(OrderByName(categories')) = Len(categories')
      ]_vars

\* a second add of 'Rent' was turned down as already existing
C6_Witness ==
    /\ call = "add_category"
    /\ ret = ReturnedMsg(FALSE, "already exists")
    /\ Rent \in SeqToSet(categories)

-----------------------------------------------------------------------------
(* C7 *)

\* C7: on a fresh store initialize_db creates the tables, sets currency_symbol
\* to "$" and seeds exactly the five default categories; on a store that is
\* already initialized it changes no table.
C7_InitializeIdempotent ==
    [][initialize_db
         => IF created
            THEN UNCHANGED tables
            ELSE /\ created'
                 /\ settings' = <<[key |-> "currency_symbol", value |-> "$"]>>
                 /\ categories' = <<Food, Travel, Shopping, Bills, Misc>>
                 /\ expenses' = {} /\ goals' = <<>>
      ]_vars

\* initialize_db ran on a store with a changed currency symbol, an added
\* category, a stored expense and a goal
C7_Witness ==
    /\ call = "initialize_db"
    /\ get_setting("currency_symbol").value = "EUR"
    /\ Len(categories) = 6
    /\ expenses # {}
    /\ goals # <<>>

-----------------------------------------------------------------------------
(* C8 *)

\* C8: there is at most one goal row per month, get_monthly_goal(m) is the
\* amount of the latest set_monthly_goal for m whatever was set for other
\* months, and it is 0 for a month never set.
C8_GoalUpsert ==
    /\ \A i, j \in 1..Len(goals) : goals[i].month = goals[j].month => i = j
    /\ \A m \in MonthInputs :
          IF \E e \in goalLog : e.month = m
          THEN \A e \in goalLog : e.month = m => get_monthly_goal(m) = e.goal
          ELSE get_monthly_goal(m) = 0

\* both months hold a goal, one month's goal set later than the other's
C8_Witness ==
    /\ call = "set_monthly_goal"
    /\ Len(goals) = 2
    /\ get_monthly_goal(FormatMonth(2024, 1)) = 100
    /\ get_monthly_goal(FormatMonth(2024, 2)) = 50

-----------------------------------------------------------------------------
(* C9 *)

\* C9: on an initialized store update_setting(key, value) makes
\* get_setting(key) return value and leaves every other key's value alone;
\* get_setting of a key never written is None.
C9_SettingRoundTrip ==
    [][\A k \in KeyInputs, v \in ValueInputs :
         (created /\ update_setting(k, v))
         => /\ get_setting(k)' = [none |-> FALSE, value |-> v]
            /\ \A other \in KeyInputs \ {k} : get_setting(other)' = get_setting(other)
            /\ \A any \in KeyInputs :
                  (~\E e \in settingLog' : e.key = any) => get_setting(any)'.none
      ]_vars

\* the currency symbol was overwritten while 'theme' has never been written
C9_Witness ==
    /\ call = "update_setting"
    /\ get_setting("currency_symbol") = [none |-> FALSE, value |-> "EUR"]
    /\ get_setting("theme").none

-----------------------------------------------------------------------------
(* C10 *)

\* the columns get_expenses_in_date_range selects
RangeColumns(r) ==
    [date |-> r.date, amount |-> r.amount, category |-> r.category, note |-> r.note]

\* C10: for start <= end get_expenses_in_date_range(start, end) returns, in
\* ascending date order, exactly the stored expenses whose date falls
\* chronologically between start and end, both included.
C10_RangeIsChronological ==
    \A start, end \in {FormatDate(2024, 1, 5, TRUE), FormatDate(2024, 2, 5, TRUE)} :
        LET got == get_expenses_in_date_range(start, end)
            inside == {r \in expenses :
                         /\ DayNumber(strptime(start)) <= DayNumber(strptime(r.date))
                         /\ DayNumber(strptime(r.date)) <= DayNumber(strptime(end))}
        IN  /\ Len(got) = Cardinality(inside)
            /\ SeqToSet(got) = {RangeColumns(r) : r \in inside}
            /\ \A i, j \in 1..Len(got) : i < j => StrLeq(got[i].date, got[j].date)

-----------------------------------------------------------------------------
(* Reports, src/main.py lines 232-262 *)

\* ORDER BY SUM(amount) ASC
RECURSIVE OrderByTotalAsc(_)
OrderByTotalAsc(pairs) ==
    IF pairs = {} THEN <<>>
    ELSE LET first == CHOOSE p \in pairs : \A o \in pairs :
                          \/ p.total < o.total
                          \/ (p.total = o.total /\ StrLeq(p.category, o.category))
         IN  <<first>> \o OrderByTotalAsc(pairs \ {first})

\* ORDER BY SUM(amount) DESC; the query leaves the order of groups of one
\* total open, they are listed by category here
RECURSIVE OrderByTotalDesc(_)
OrderByTotalDesc(pairs) ==
    IF pairs = {} THEN <<>>
    ELSE LET first == CHOOSE p \in pairs : \A o \in pairs :
                          \/ p.total > o.total
                          \/ (p.total = o.total /\ StrLeq(p.category, o.category))
         IN  <<first>> \o OrderByTotalDesc(pairs \ {first})

\* SELECT category, SUM(amount) FROM rows GROUP BY category
group_by_category(rows) ==
    {[category |-> c, total |-> SumAmounts({r \in rows : r.category = c})] :
        c \in {r.category : r \in rows}}

get_category_breakdown == OrderByTotalDesc(group_by_category(expenses))

\* SELECT SUM(amount) as daily_total FROM rows GROUP BY date
daily_totals(rows) ==
    {[date |-> d, total |-> SumAmounts({r \in rows : r.date = d})] :
        d \in {r.date : r \in rows}}

RECURSIVE SumTotals(_)
SumTotals(groups) ==
    IF groups = {} THEN 0
    ELSE LET g == CHOOSE x \in groups : TRUE
         IN  g.total + SumTotals(groups \ {g})

\* SELECT AVG(daily_total) FROM (...): the quotient num / den, kept as a
\* fraction; None (no row) and 0.0 are returned as 0.0
average_of_daily_totals(rows) ==
    IF daily_totals(rows) = {} \/ SumTotals(daily_totals(rows)) = 0
    THEN [num |-> 0, den |-> 1]
    ELSE [num |-> SumTotals(daily_totals(rows)),
          den |-> Cardinality(daily_totals(rows))]

get_average_daily_expense == average_of_daily_totals(expenses)

\* reports over expenses of two categories, three amounts and three date texts
NextReports ==
    \/ initialize_db /\ UNCHANGED ui
    \/ \E d \in {FormatDate(2024, 1, 5, TRUE), FormatDate(2024, 1, 5, FALSE),
                 FormatDate(2024, 2, 5, TRUE)},
          a \in {PyNum(5), PyNum(10), PyStr(NanText)},
          c \in {Food, Travel} :
          add_expense(d, a, c, Lunch) /\ UNCHANGED ui
    \/ \E id \in IdInputs : delete_expense(id) /\ UNCHANGED ui

SpecReports == Init /\ [][NextReports]_vars

-----------------------------------------------------------------------------
(* C11 *)

\* C11: get_category_breakdown lists every category that has a stored expense
\* exactly once, with the sum of the amounts of the stored expenses of that
\* category, in descending order of the sums, and lists no other category.
C11_BreakdownByCategory ==
    LET got == get_category_breakdown
    IN  /\ {got[i].category : i \in 1..Len(got)} = {r.category : r \in expenses}
        /\ \A i, j \in 1..Len(got) : got[i].category = got[j].category => i = j
        /\ \A i \in 1..Len(got) :
              got[i].total = SumAmounts({r \in expenses : r.category = got[i].category})
        /\ \A i, j \in 1..Len(got) : i < j => got[i].total >= got[j].total

\* 'Travel' with the larger total is listed before 'Food'
C11_Witness ==
    /\ Len(get_category_breakdown) = 2
    /\ get_category_breakdown[1] = [category |-> Travel, total |-> 10]
    /\ get_category_breakdown[2] = [category |-> Food, total |-> 5]

-----------------------------------------------------------------------------
(* C12 *)

\* C12: get_average_daily_expense is the sum of all stored amounts divided by
\* the number of distinct calendar days that have an expense, and zero when
\* nothing is stored.
C12_AveragePerDay ==
    LET avg == get_average_daily_expense
        days == {DayNumber(strptime(r.date)) : r \in expenses}
    IN  IF expenses = {}
        THEN avg.num = 0
        ELSE avg.num * Cardinality(days) = SumAmounts(expenses) * avg.den

-----------------------------------------------------------------------------
(* GUI: expense list and goal display, src/main.py lines 407-445 *)

\* datetime.now().strftime('%Y-%m'): the runs take place in January 2024
current_month == FormatMonth(2024, 1)

\* the bands with the lower bound of each band included
goal_status_inclusive(goal, spent) ==
    IF goal > 0
    THEN IF spent * 100 >= 100 * goal THEN "Status: Over Budget!"
         ELSE IF spent * 100 >= 85 * goal THEN "Status: Nearing Budget"
         ELSE "Status: On Track"
    ELSE "Set a goal to see your status."

\* lines 422-436: percentage = (spent / goal) * 100 is compared with 100 and
\* with 85; goal > 0 there, so both sides are multiplied by goal
goal_status(goal, spent) ==
    IF goal > 0
    THEN IF spent * 100 > 100 * goal THEN "Status: Over Budget!"
         ELSE IF spent * 100 > 85 * goal THEN "Status: Nearing Budget"
         ELSE "Status: On Track"
    ELSE "Set a goal to see your status."

\* update_goal_display reading the tables given
update_goal_display(goal_rows, expense_rows) ==
    /\ goal_label' = [goal  |-> select_goal(goal_rows, current_month),
                      spent |-> sum_for_month(expense_rows, current_month)]
    /\ budget_status' = goal_status(select_goal(goal_rows, current_month),
                                    sum_for_month(expense_rows, current_month))

\* number of leading rows whose amount f"{amount:,.2f}" can format: a stored
\* text has no format code 'f' (ValueError)
RECURSIVE FormattablePrefix(_)
FormattablePrefix(rows) ==
    IF rows = <<>> \/ rows[1].amount.t # "real" THEN 0
    ELSE 1 + FormattablePrefix(Tail(rows))

\* load_expenses reading the tables given: the list is emptied and filled row
\* by row (the amount cell is the currency symbol and the amount with two
\* decimals; the row keeps the number), then the goal display is updated; a
\* row that cannot be formatted ends the handler there
load_expenses(goal_rows, expense_rows) ==
    LET rows == OrderByDateDesc(expense_rows)
    IN  /\ tree' = SubSeq(rows, 1, FormattablePrefix(rows))
        /\ IF FormattablePrefix(rows) = Len(rows)
           THEN update_goal_display(goal_rows, expense_rows)
           ELSE UNCHANGED <<goal_label, budget_status>>

\* the calls of load_expenses, all on the thread that runs it
load_expenses_calls(thread) ==
    {[op |-> "get_all_expenses", thread |-> thread],
     [op |-> "get_monthly_goal", thread |-> thread],
     [op |-> "get_total_expenses_for_month", thread |-> thread]}

\* main_gui, lines 559-561 and 314-401: main() has initialized the store, the
\* window is built on the event-loop thread; init_ui updates the goal display
\* (line 374) before it loads the expense list (line 401)
main_gui ==
    /\ created
    /\ handler' = "main_gui"
    /\ message' = ""
    /\ tree' = SubSeq(OrderByDateDesc(expenses), 1,
                      FormattablePrefix(OrderByDateDesc(expenses)))
    /\ update_goal_display(goals, expenses)
    /\ ran' = load_expenses_calls("ui")
                 \cup {[op |-> "get_setting", thread |-> "ui"],
                       [op |-> "get_categories", thread |-> "ui"]}
    /\ UNCHANGED store
    /\ UNCHANGED <<threads, after_queue, started, reports, chart_file, outbox>>

\* set_monthly_goal for a Python value: a float NaN is bound as NULL, which
\* the column `goal REAL NOT NULL` refuses (sqlite3.IntegrityError)
set_monthly_goal_bound(month_str, value) ==
    IF value.t = "nan"
    THEN /\ call' = "set_monthly_goal"
         /\ ret' = Raised(IF created THEN "IntegrityError" ELSE "OperationalError")
         /\ UNCHANGED <<tables, issued, goalLog, settingLog>>
    ELSE set_monthly_goal(month_str, value.n)

\* simpledialog.askfloat(..., minvalue): the value handed back for the text
\* left in the entry when OK is pressed; text that float() refuses or a
\* number below minvalue is answered with a warning and no value (None, as
\* for Cancel); NaN is not below minvalue
askfloat(entry, minvalue) ==
    LET f == PyFloat(PyStr(entry))
    IN  IF f.err # "" THEN PyNone
        ELSE IF f.nan THEN PyNaN
        ELSE IF f.n < minvalue THEN PyNone
        ELSE PyNum(f.n)

\* set_goal_gui, lines 438-445, all on the event-loop thread; an exception of
\* set_monthly_goal ends the handler before update_goal_display
set_goal_gui(entry, pressed_ok) ==
    LET new_goal == IF pressed_ok THEN askfloat(entry, 0) ELSE PyNone
    IN  /\ created
        /\ handler' = "set_goal_gui"
        /\ message' = ""
        /\ UNCHANGED <<tree, threads, after_queue, started, reports,
                       chart_file, outbox>>
        /\ IF new_goal.t = "none"
           THEN /\ ran' = {[op |-> "get_monthly_goal", thread |-> "ui"]}
                /\ UNCHANGED store
                /\ UNCHANGED <<goal_label, budget_status>>
           ELSE /\ set_monthly_goal_bound(current_month, new_goal)
                /\ IF new_goal.t = "nan"
                   THEN /\ ran' = {[op |-> "get_monthly_goal", thread |-> "ui"],
                                   [op |-> "set_monthly_goal", thread |-> "ui"]}
                        /\ UNCHANGED <<goal_label, budget_status>>
                   ELSE /\ ran' = {[op |-> "get_monthly_goal", thread |-> "ui"],
                                   [op |-> "set_monthly_goal", thread |-> "ui"],
                                   [op |-> "get_total_expenses_for_month",
                                    thread |-> "ui"]}
                        /\ update_goal_display(goals', expenses)

-----------------------------------------------------------------------------
(* CLI: monthly goal, src/main.py lines 669-693 *)

\* the goal prompt without the test new_goal >= 0
manage_goal_cli_unchecked(new_goal_str) ==
    LET f == PyFloat(PyStr(new_goal_str))
    IN  /\ created
        /\ handler' = "manage_goal_cli"
        /\ ran' = {[op |-> "get_monthly_goal", thread |-> "cli"]}
        /\ UNCHANGED <<goal_label, budget_status, tree, threads, after_queue,
                       started, reports, chart_file, outbox>>
        /\ IF new_goal_str # <<>> /\ f.err = ""
           THEN /\ set_monthly_goal_bound(current_month,
                                          IF f.nan THEN PyNaN ELSE PyNum(f.n))
                /\ message' = "Goal updated"
           ELSE /\ message' = ""
                /\ UNCHANGED store

\* manage_goal_cli: the goal and the amount spent are printed, then the
\* answer to the prompt is read; NaN >= 0 is false
manage_goal_cli(new_goal_str) ==
    LET f == PyFloat(PyStr(new_goal_str))
    IN  /\ created
        /\ handler' = "manage_goal_cli"
        /\ UNCHANGED <<goal_label, budget_status, tree, threads, after_queue,
                       started, reports, chart_file, outbox>>
        /\ IF new_goal_str = <<>>
           THEN /\ message' = ""
                /\ ran' = {[op |-> "get_setting", thread |-> "cli"],
                           [op |-> "get_monthly_goal", thread |-> "cli"],
                           [op |-> "get_total_expenses_for_month", thread |-> "cli"]}
                /\ UNCHANGED store
           ELSE IF f.err # ""
           THEN /\ message' = "Invalid amount. Please enter a number."
                /\ ran' = {[op |-> "get_setting", thread |-> "cli"],
                           [op |-> "get_monthly_goal", thread |-> "cli"],
                           [op |-> "get_total_expenses_for_month", thread |-> "cli"]}
                /\ UNCHANGED store
           ELSE IF ~f.nan /\ f.n >= 0
           THEN /\ set_monthly_goal(current_month, f.n)
                /\ message' = "Goal updated"
                /\ ran' = {[op |-> "get_setting", thread |-> "cli"],
                           [op |-> "get_monthly_goal", thread |-> "cli"],
                           [op |-> "get_total_expenses_for_month", thread |-> "cli"],
                           [op |-> "set_monthly_goal", thread |-> "cli"]}
           ELSE /\ message' = "Goal must be a positive number."
                /\ ran' = {[op |-> "get_setting", thread |-> "cli"],
                           [op |-> "get_monthly_goal", thread |-> "cli"],
                           [op |-> "get_total_expenses_for_month", thread |-> "cli"]}
                /\ UNCHANGED store

-----------------------------------------------------------------------------
(* Goals through the front ends *)

\* '100', '0', '-5', 'abc', 'nan' and the empty text
GoalEntries ==
    {<<Digit(1), Digit(0), Digit(0)>>, <<Digit(0)>>, <<Dash, Digit(5)>>,
     Abc, NanText, <<>>}

\* amounts that add up to 85, 90 and 100 within two expenses
SpentInputs == {PyNum(85), PyNum(5), PyNum(15)}

\* the store is written by the workers and by the CLI (expenses of the current
\* month and one of the next), the window shows what it read last, and goals
\* are set in the dialog and at the prompt
NextGoals ==
    \/ initialize_db /\ UNCHANGED ui
    \/ \E a \in SpentInputs :
          add_expense(FormatDate(2024, 1, 5, TRUE), a, Food, Lunch) /\ UNCHANGED ui
    \/ add_expense(FormatDate(2024, 2, 5, TRUE), PyNum(5), Food, Lunch) /\ UNCHANGED ui
    \/ main_gui
    \/ \E entry \in GoalEntries, pressed_ok \in BOOLEAN : set_goal_gui(entry, pressed_ok)
    \/ \E entry \in GoalEntries : manage_goal_cli(entry)

SpecGoals == Init /\ [][NextGoals]_vars

-----------------------------------------------------------------------------
(* C13 *)

\* spent / goal <= pct / 100 for a goal that is not zero
RatioAtMost(spent, goal, pct) ==
    IF goal > 0 THEN spent * 100 <= pct * goal ELSE spent * 100 >= pct * goal

\* C13: the status on display is determined by the goal and the amount spent
\* on display alone: 'no goal set' when the goal is 0 whatever was spent;
\* otherwise 'on track' when spent/goal <= 85%, 'nearing budget' when it is
\* above 85% and at most 100%, 'over budget' when it is above 100%.
C13_GoalStatusBands ==
    budget_status =
        IF goal_label.goal = 0 THEN "Set a goal to see your status."
        ELSE IF RatioAtMost(goal_label.spent, goal_label.goal, 85)
        THEN "Status: On Track"
        ELSE IF RatioAtMost(goal_label.spent, goal_label.goal, 100)
        THEN "Status: Nearing Budget"
        ELSE "Status: Over Budget!"

\* goal 100 with 90 spent is shown as nearing the budget
C13_Witness ==
    /\ goal_label = [goal |-> 100, spent |-> 90]
    /\ budget_status = "Status: Nearing Budget"

-----------------------------------------------------------------------------
(* C16 *)

\* the text reads as a number that is zero or more
IsNonNegativeNumber(text) ==
    /\ PyFloat(PyStr(text)).err = ""
    /\ ~PyFloat(PyStr(text)).nan
    /\ PyFloat(PyStr(text)).n >= 0

\* C16: whatever is typed into the goal dialog of the GUI or at the goal
\* prompt of the CLI, every row of the goals table keeps goal >= 0, and an
\* input that is cancelled or is no number >= 0 leaves the goals table as it
\* was.
C16_FrontEndGoalsNonNegative ==
    [][/\ \A i \in 1..Len(goals') : goals'[i].goal >= 0
       /\ \A entry \in GoalEntries :
             /\ (manage_goal_cli(entry) /\ ~IsNonNegativeNumber(entry))
                   => UNCHANGED goals
             /\ (set_goal_gui(entry, TRUE) /\ ~IsNonNegativeNumber(entry))
                   => UNCHANGED goals
             /\ set_goal_gui(entry, FALSE) => UNCHANGED goals
      ]_vars

\* the prompt has refused a negative goal while a goal of 100 is stored
C16_Witness ==
    /\ handler = "manage_goal_cli"
    /\ message = "Goal must be a positive number."
    /\ select_goal(goals, current_month) = 100

-----------------------------------------------------------------------------
(* Email, src/main.py lines 175-220 and 264-286 *)

\* os.path.join('reports', 'category_breakdown.png'); the empty text stands
\* for the None that plot_and_save_breakdown returns without a chart
chart_path == "reports/category_breakdown.png"

\* open(plot_path, "rb") and read(): the exception raised, "" when the bytes
\* were read
read_attachment(file) ==
    CASE file = "absent"     -> "FileNotFoundError"
      [] file = "unreadable" -> "PermissionError"
      [] OTHER               -> ""

\* f"Failed to send email: {e}" for the exception the SMTP conversation
\* ends with
smtp_failure(smtp) ==
    IF smtp = "login refused"
    THEN "Failed to send email: Username and Password not accepted"
    ELSE "Failed to send email: Network is unreachable"

\* what send_summary_email hands back for a plot path, the state of the
\* file at that path and the way the SMTP conversation goes: only
\* FileNotFoundError is caught around the read of the attachment
send_summary_email_result(plot_path, file, smtp) ==
    IF plot_path = ""
    THEN ReturnedMsg(FALSE, "Could not generate the plot for the email.")
    ELSE IF read_attachment(file) = "FileNotFoundError"
    THEN ReturnedMsg(FALSE, "Attachment file not found.")
    ELSE IF read_attachment(file) # ""
    THEN Raised(read_attachment(file))
    ELSE IF smtp = "accepted"
    THEN ReturnedMsg(TRUE, "Email sent successfully!")
    ELSE ReturnedMsg(FALSE, smtp_failure(smtp))

\* get_setting and get_total_expenses_for_month are read first (they raise
\* on a store without tables); the message is sent only on the last path
send_summary_email(sender_email, password, recipient_email, plot_path, smtp) ==
    /\ call' = "send_summary_email"
    /\ UNCHANGED <<tables, issued, goalLog, settingLog>>
    /\ ret' = IF created
              THEN send_summary_email_result(plot_path, chart_file, smtp)
              ELSE Raised("OperationalError")
    /\ outbox' = IF created /\ send_summary_email_result(plot_path, chart_file, smtp).ok
                 THEN outbox \cup {[from |-> sender_email, to |-> recipient_email,
                                    attachment |-> plot_path]}
                 ELSE outbox

\* plot_and_save_breakdown: None for an empty breakdown, else the chart is
\* saved and its path returned
plot_and_save_breakdown(breakdown) ==
    IF breakdown = <<>> THEN "" ELSE chart_path

\* plt.savefig(filepath): a new file can be read; a file that was there is
\* overwritten and keeps its permissions
savefig(file) == IF file = "unreadable" THEN "unreadable" ELSE "readable"

\* the file system outside the program: the chart file is removed, or its
\* permissions are changed, by the user or another process
chart_file_changed(file) ==
    /\ chart_file # file
    /\ chart_file' = file
    /\ UNCHANGED store
    /\ UNCHANGED <<handler, message, goal_label, budget_status, ran, tree,
                   threads, after_queue, started, reports, outbox>>

-----------------------------------------------------------------------------
(* GUI: email summary, src/main.py lines 516-535 *)

\* email_summary_gui for the three fields of the credential dialog, on the
\* event-loop thread
email_summary_gui(sender, password, recipient) ==
    /\ created
    /\ handler' = "email_summary_gui"
    /\ UNCHANGED store
    /\ UNCHANGED <<goal_label, budget_status, tree, after_queue, reports, outbox>>
    /\ IF sender = "" \/ password = "" \/ recipient = ""
       THEN /\ message' = "All fields are required."
            /\ ran' = {}
            /\ UNCHANGED <<threads, started, chart_file>>
       ELSE IF plot_and_save_breakdown(get_category_breakdown) = ""
       THEN /\ message' = "Could not generate the plot for the email."
            /\ ran' = {[op |-> "get_setting", thread |-> "ui"],
                       [op |-> "get_category_breakdown", thread |-> "ui"],
                       [op |-> "plot_and_save_breakdown", thread |-> "ui"]}
            /\ UNCHANGED <<threads, started, chart_file>>
       ELSE /\ started < MaxActions
            /\ message' = "Sending email in the background..."
            /\ ran' = {[op |-> "get_setting", thread |-> "ui"],
                       [op |-> "get_category_breakdown", thread |-> "ui"],
                       [op |-> "plot_and_save_breakdown", thread |-> "ui"]}
            /\ chart_file' = savefig(chart_file)
            /\ started' = started + 1
            /\ threads' = threads \cup
                  {[id |-> started + 1, target |-> "worker_send_email",
                    args |-> <<sender, password, recipient,
                               plot_and_save_breakdown(get_category_breakdown)>>]}

\* worker_send_email: the thread t runs send_summary_email and hands the
\* message to the event loop; an exception ends the thread before that
worker_send_email(t, smtp) ==
    /\ t \in threads
    /\ t.target = "worker_send_email"
    /\ handler' = "worker_send_email"
    /\ send_summary_email(t.args[1], t.args[2], t.args[3], t.args[4], smtp)
    /\ ran' = {[op |-> "get_setting", thread |-> "worker"],
               [op |-> "get_total_expenses_for_month", thread |-> "worker"],
               [op |-> "send_summary_email", thread |-> "worker"]}
    /\ threads' = threads \ {t}
    /\ after_queue' = IF ret'.exc # "" THEN after_queue
                      ELSE Append(after_queue,
                                  [callback |-> "showinfo", arg |-> ret'.msg,
                                   id |-> t.id])
    /\ UNCHANGED <<message, goal_label, budget_status, tree, started, reports,
                   chart_file>>

\* the event loop runs the callback of worker_send_email:
\* messagebox.showinfo("Email Status", message)
email_status_callback ==
    /\ after_queue # <<>>
    /\ Head(after_queue).callback = "showinfo"
    /\ handler' = "Email Status"
    /\ message' = Head(after_queue).arg
    /\ after_queue' = Tail(after_queue)
    /\ ran' = {}
    /\ UNCHANGED store
    /\ UNCHANGED <<goal_label, budget_status, tree, threads, started, reports,
                   chart_file, outbox>>

-----------------------------------------------------------------------------
(* CLI: email summary, src/main.py lines 705-718 *)

\* send_email_cli: line 717 calls send_summary_email with three arguments for
\* its four parameters; the TypeError of the call is caught nowhere
send_email_cli(sender_email, password, recipient_email) ==
    /\ created
    /\ handler' = "send_email_cli"
    /\ ran' = {}
    /\ UNCHANGED <<tables, issued, goalLog, settingLog>>
    /\ UNCHANGED <<goal_label, budget_status, tree, threads, after_queue,
                   started, reports, chart_file, outbox>>
    /\ IF sender_email = "" \/ password = "" \/ recipient_email = ""
       THEN /\ message' = "All fields are required. Aborting."
            /\ UNCHANGED <<call, ret>>
       ELSE /\ message' = "Sending email..."
            /\ call' = "send_summary_email"
            /\ ret' = Raised("TypeError")

-----------------------------------------------------------------------------
(* Email through the library and through the front ends *)

\* an address or password left empty, or filled in
FieldInputs == {"", "filled in"}

PlotPathInputs == {"", chart_path}

SmtpOutcomes == {"accepted", "login refused"}

NextEmail ==
    \/ initialize_db /\ UNCHANGED ui
    \/ add_expense(FormatDate(2024, 1, 5, TRUE), PyNum(5), Food, Lunch) /\ UNCHANGED ui
    \/ \E file \in {"absent", "unreadable"} : chart_file_changed(file)
    \/ \E plot_path \in PlotPathInputs, smtp \in SmtpOutcomes :
          /\ send_summary_email("filled in", "filled in", "filled in", plot_path, smtp)
          /\ UNCHANGED <<handler, message, goal_label, budget_status, ran, tree,
                         threads, after_queue, started, reports, chart_file>>
    \/ \E recipient \in FieldInputs :
          email_summary_gui("filled in", "filled in", recipient)
    \/ \E t \in threads, smtp \in SmtpOutcomes : worker_send_email(t, smtp)
    \/ email_status_callback
    \/ \E recipient \in FieldInputs :
          send_email_cli("filled in", "filled in", recipient)

SpecEmail == Init /\ [][NextEmail]_vars

-----------------------------------------------------------------------------
(* C14 *)

\* why a send cannot succeed: the chart file is missing, it is there but
\* cannot be read, or the SMTP conversation fails
FailureCause(plot_path, file, smtp) ==
    IF plot_path = "" THEN "no chart"
    ELSE IF file = "absent" THEN "missing"
    ELSE IF file = "unreadable" THEN "unreadable"
    ELSE IF smtp # "accepted" THEN "transport"
    ELSE "none"

FileStates == {"absent", "unreadable", "readable"}

\* C14: send_summary_email always returns, success or a failure with a reason;
\* a missing chart file, an unreadable chart file and a transport or
\* authentication error each give a failure whose reason is not the reason of
\* either other cause; nothing is raised, and no message is sent when the
\* attachment could not be read.
C14_EmailFailuresDistinct ==
    [][\A plot_path \in PlotPathInputs, smtp \in SmtpOutcomes :
         (created /\ send_summary_email("filled in", "filled in", "filled in",
                                        plot_path, smtp))
            => LET cause == FailureCause(plot_path, chart_file, smtp)
               IN  /\ ret'.exc = ""
                   /\ ret'.ok <=> cause = "none"
                   /\ ~ret'.ok => ret'.msg # ""
                   /\ cause \in {"missing", "unreadable"} => outbox' = outbox
                   /\ \A file2 \in FileStates, smtp2 \in SmtpOutcomes :
                         LET cause2 == FailureCause(chart_path, file2, smtp2)
                         IN  (/\ cause \in {"missing", "unreadable", "transport"}
                              /\ cause2 \in {"missing", "unreadable", "transport"}
                              /\ cause2 # cause)
                                => send_summary_email_result(chart_path, file2, smtp2).msg
                                      # ret'.msg
      ]_vars

-----------------------------------------------------------------------------
(* C15 *)

\* the step called the function named op
Ran(op) == \E e \in ran' : e.op = op

\* C15: with sender, credential and recipient filled in and an expense in the
\* store, 'send email summary' in the CLI renders the chart, calls
\* send_summary_email with it and prints the message it returns; in the GUI
\* it renders the chart and starts the send with it, and the message the
\* send returns is then shown.
C15_EmailFlowBothFrontEnds ==
    [][/\ (expenses # {} /\ send_email_cli("filled in", "filled in", "filled in"))
            => /\ Ran("plot_and_save_breakdown")
               /\ call' = "send_summary_email"
               /\ ret'.exc = ""
               /\ message' = ret'.msg
       /\ (expenses # {} /\ email_summary_gui("filled in", "filled in", "filled in"))
            => /\ Ran("plot_and_save_breakdown")
               /\ \E t \in threads' \ threads :
                     /\ t.target = "worker_send_email"
                     /\ t.args[4] = chart_path
       /\ \A t \in threads, smtp \in SmtpOutcomes :
             (t.target = "worker_send_email" /\ chart_file = "readable"
                 /\ worker_send_email(t, smtp))
                => /\ ret'.exc = ""
                   /\ after_queue' = Append(after_queue,
                                            [callback |-> "showinfo",
                                             arg |-> ret'.msg, id |-> t.id])
       /\ email_status_callback => message' = Head(after_queue).arg
      ]_vars

-----------------------------------------------------------------------------
(* GUI: adding and deleting an expense, src/main.py lines 455-501 *)

\* start_add_expense_thread, on the event-loop thread: the fields are checked
\* (NaN <= 0 is false) and a worker thread is started with the amount as a
\* float
start_add_expense_thread(date, amount_str, category, note) ==
    LET f == PyFloat(PyStr(amount_str))
    IN  /\ created
        /\ handler' = "start_add_expense_thread"
        /\ ran' = {}
        /\ UNCHANGED store
        /\ UNCHANGED <<goal_label, budget_status, tree, after_queue, reports,
                       chart_file, outbox>>
        /\ IF amount_str = <<>> \/ category = <<>>
           THEN /\ message' = "Amount and Category are required."
                /\ UNCHANGED <<threads, started>>
           ELSE IF f.err # ""
           THEN /\ message' = "Invalid amount. Please enter a number."
                /\ UNCHANGED <<threads, started>>
           ELSE IF ~f.nan /\ f.n <= 0
           THEN /\ message' = "Amount must be a positive number."
                /\ UNCHANGED <<threads, started>>
           ELSE /\ started < MaxActions
                /\ message' = ""
                /\ started' = started + 1
                /\ threads' = threads \cup
                      {[id |-> started + 1, target |-> "worker_add_expense",
                        args |-> <<date, IF f.nan THEN PyNaN ELSE PyNum(f.n),
                                   category, note>>]}

\* worker_add_expense: the thread t runs add_expense and hands the result to
\* the event loop; an exception of add_expense ends the thread before that
worker_add_expense(t) ==
    /\ t \in threads
    /\ t.target = "worker_add_expense"
    /\ handler' = "worker_add_expense"
    /\ add_expense(t.args[1], t.args[2], t.args[3], t.args[4])
    /\ ran' = {[op |-> "add_expense", thread |-> "worker"]}
    /\ threads' = threads \ {t}
    /\ after_queue' = IF ret'.exc # "" THEN after_queue
                      ELSE Append(after_queue,
                                  [callback |-> "finish_add_expense",
                                   arg |-> ret'.ok, id |-> t.id])
    /\ UNCHANGED <<message, goal_label, budget_status, tree, started, reports,
                   chart_file, outbox>>

\* the event loop runs finish_add_expense(success)
finish_add_expense ==
    /\ after_queue # <<>>
    /\ Head(after_queue).callback = "finish_add_expense"
    /\ handler' = "finish_add_expense"
    /\ after_queue' = Tail(after_queue)
    /\ UNCHANGED store
    /\ UNCHANGED <<threads, started, chart_file, outbox>>
    /\ IF Head(after_queue).arg
       THEN /\ message' = "Expense added successfully."
            /\ reports' = Append(reports, [id |-> Head(after_queue).id,
                                           result |-> "success"])
            /\ load_expenses(goals, expenses)
            /\ ran' = load_expenses_calls("ui")
       ELSE /\ message' = "Failed to add expense."
            /\ reports' = Append(reports, [id |-> Head(after_queue).id,
                                           result |-> "failure"])
            /\ ran' = {}
            /\ UNCHANGED <<tree, goal_label, budget_status>>

\* start_delete_expense_thread, on the event-loop thread: selection is the
\* position of the selected row of the list (0: no row selected), confirmed
\* the answer to "Delete expense ID ...?"
start_delete_expense_thread(selection, confirmed) ==
    /\ created
    /\ selection \in 0..Len(tree)
    /\ handler' = "start_delete_expense_thread"
    /\ ran' = {}
    /\ UNCHANGED store
    /\ UNCHANGED <<goal_label, budget_status, tree, after_queue, reports,
                   chart_file, outbox>>
    /\ IF selection = 0
       THEN /\ message' = "Please select an expense to delete."
            /\ UNCHANGED <<threads, started>>
       ELSE IF ~confirmed
       THEN /\ message' = ""
            /\ UNCHANGED <<threads, started>>
       ELSE /\ started < MaxActions
            /\ message' = ""
            /\ started' = started + 1
            /\ threads' = threads \cup
                  {[id |-> started + 1, target |-> "worker_delete_expense",
                    args |-> <<tree[selection].id>>]}

\* worker_delete_expense: the thread t runs delete_expense and hands the
\* result to the event loop
worker_delete_expense(t) ==
    /\ t \in threads
    /\ t.target = "worker_delete_expense"
    /\ handler' = "worker_delete_expense"
    /\ delete_expense(t.args[1])
    /\ ran' = {[op |-> "delete_expense", thread |-> "worker"]}
    /\ threads' = threads \ {t}
    /\ after_queue' = IF ret'.exc # "" THEN after_queue
                      ELSE Append(after_queue,
                                  [callback |-> "finish_delete_expense",
                                   arg |-> ret'.ok, id |-> t.id])
    /\ UNCHANGED <<message, goal_label, budget_status, tree, started, reports,
                   chart_file, outbox>>

\* the event loop runs finish_delete_expense(success)
finish_delete_expense ==
    /\ after_queue # <<>>
    /\ Head(after_queue).callback = "finish_delete_expense"
    /\ handler' = "finish_delete_expense"
    /\ after_queue' = Tail(after_queue)
    /\ UNCHANGED store
    /\ UNCHANGED <<threads, started, chart_file, outbox>>
    /\ IF Head(after_queue).arg
       THEN /\ message' = "Expense deleted."
            /\ reports' = Append(reports, [id |-> Head(after_queue).id,
                                           result |-> "success"])
            /\ load_expenses(goals, expenses)
            /\ ran' = load_expenses_calls("ui")
       ELSE /\ message' = "Failed to delete expense."
            /\ reports' = Append(reports, [id |-> Head(after_queue).id,
                                           result |-> "failure"])
            /\ ran' = {}
            /\ UNCHANGED <<tree, goal_label, budget_status>>

-----------------------------------------------------------------------------
(* The window *)

\* '5', 'nan', 'abc' and '-5' typed into the amount field
AmountEntries == {<<Digit(5)>>, NanText, Abc, <<Dash, Digit(5)>>}

\* the window on a store that only it writes: expenses are added and deleted
\* by worker threads whose steps and callbacks interleave, and the goal is set
\* in the dialog
NextGui ==
    \/ initialize_db /\ UNCHANGED ui
    \/ main_gui
    \/ \E d \in {FormatDate(2024, 1, 5, TRUE), FormatDate(2024, 2, 5, TRUE)},
          a \in AmountEntries :
          start_add_expense_thread(d, a, Food, Lunch)
    \/ \E t \in threads : worker_add_expense(t)
    \/ finish_add_expense
    \/ \E selection \in 0..MaxId, confirmed \in BOOLEAN :
          start_delete_expense_thread(selection, confirmed)
    \/ \E t \in threads : worker_delete_expense(t)
    \/ finish_delete_expense
    \/ \E pressed_ok \in BOOLEAN :
          set_goal_gui(<<Digit(1), Digit(0), Digit(0)>>, pressed_ok)

SpecGui == Init /\ [][NextGui]_vars

-----------------------------------------------------------------------------
(* C17 *)

\* C17: whatever the user does in the window, no database read or write and
\* no email send runs on the event-loop thread; each runs on a worker thread.
C17_NoStorageOnUiThread ==
    handler \notin {"main", "main_gui"} => \A e \in ran : e.thread # "ui"

-----------------------------------------------------------------------------
(* C18 *)

\* C18: whenever no worker thread is running and no completion callback is
\* waiting, the expense list on display holds exactly the expenses of the
\* store, and every add or delete that was started has shown exactly one
\* result.
C18_QuiescentDisplayAndReports ==
    (threads = {} /\ after_queue = <<>>)
        => /\ {tree[i] : i \in 1..Len(tree)} = expenses
           /\ Len(tree) = Cardinality(expenses)
           /\ \A id \in 1..started :
                 Cardinality({i \in 1..Len(reports) : reports[i].id = id}) = 1

====
